---- MODULE Spec2Model ----
(***************************************************************************)
(* Model of the Yahoo-news scraping robot (src/src/main.py,                *)
(* src/src/news_scraper.py).  Python strings are sequences of one-         *)
(* character strings so that slicing, case mapping, sanitising and         *)
(* substring counting are computed, not assumed.                           *)
(***************************************************************************)
EXTENDS Integers, Sequences, FiniteSets, TLC

\* ------------------------------------------------------------------ bounds
MaxCount == 21      \* largest article count one poll can report (scroll-only specification)
MaxArticles == 2    \* largest article count one poll can report (whole-run specification)
MaxOffset == 1      \* how many cards may have left the top of the DOM at a poll
MaxPolls == 22      \* the poll counter saturates here
MaxTitleLen == 4    \* search_phrase_count inputs: longest title
MaxDescLen == 2     \* search_phrase_count inputs: longest description
MaxPhraseLen == 2   \* search_phrase_count inputs: longest search phrase

\* ------------------------------------------------------- program constants
ArticleTarget == 20     \* while len(articles) < 20
ReturnLimit == 20       \* articles[:20]
TitlePrefixLen == 15    \* title[:15]

\* ----------------------------------------------------------------- strings
LowerSeq == <<"a", "b", "c", "d", "e", "f", "g", "h", "i", "j", "k", "l", "m", "n", "o", "p", "q", "r", "s", "t", "u", "v", "w", "x", "y", "z">>
UpperSeq == <<"A", "B", "C", "D", "E", "F", "G", "H", "I", "J", "K", "L", "M", "N", "O", "P", "Q", "R", "S", "T", "U", "V", "W", "X", "Y", "Z">>
DigitSeq == <<"0", "1", "2", "3", "4", "5", "6", "7", "8", "9">>

Range(s) == {s[i] : i \in DOMAIN s}

Min(a, b) == IF a < b THEN a ELSE b

\* str.lower() and str.upper() on the letters
LowerOf == [c \in Range(UpperSeq) |-> LowerSeq[CHOOSE i \in DOMAIN UpperSeq : UpperSeq[i] = c]]

UpperOf == [c \in Range(LowerSeq) |-> UpperSeq[CHOOSE i \in DOMAIN LowerSeq : LowerSeq[i] = c]]

LowerChar(c) == IF c \in DOMAIN LowerOf THEN LowerOf[c] ELSE c

UpperChar(c) == IF c \in DOMAIN UpperOf THEN UpperOf[c] ELSE c

StrLower(s) == [i \in DOMAIN s |-> LowerChar(s[i])]

StrUpper(s) == [i \in DOMAIN s |-> UpperChar(s[i])]

\* the regular expression class \w
WordChars == Range(LowerSeq) \cup Range(UpperSeq) \cup Range(DigitSeq) \cup {"_"}

IsWordChar(c) == c \in WordChars

\* s[:n]
Prefix(s, n) == SubSeq(s, 1, Min(n, Len(s)))

\* does sub occur in s at 1-based position p
MatchAt(s, sub, p) ==
    /\ p >= 1
    /\ p + Len(sub) - 1 <= Len(s)
    /\ \A j \in 1..Len(sub) : s[p + j - 1] = sub[j]

\* str.count(sub): scan left to right, after a match resume behind it;
\* the empty substring is found between all characters
RECURSIVE CountFrom(_, _, _)
CountFrom(s, sub, p) ==
    IF p + Len(sub) - 1 > Len(s) THEN 0
    ELSE IF MatchAt(s, sub, p) THEN 1 + CountFrom(s, sub, p + Len(sub))
    ELSE CountFrom(s, sub, p + 1)

StrCount(s, sub) == IF Len(sub) = 0 THEN Len(s) + 1 ELSE CountFrom(s, sub, 1)

\* ------------------------------------------------------------- sample data
Placeholder == <<"p", "l", "a", "c", "e", "h", "o", "l", "d", "e", "r", ".", "p", "n", "g">>
JpgExt == <<".", "j", "p", "g">>
XlsxInfix == <<"_", "n", "e", "w", "s", "_", "d", "a", "t", "a", "_">>
XlsxExt == <<".", "x", "l", "s", "x">>
LogInfix == <<"_", "s", "c", "r", "a", "p", "e", "_", "l", "o", "g", "_">>
TxtExt == <<".", "t", "x", "t">>

Title1 == <<"E", "l", "e", "c", "t", "i", "o", "n", " ", "r", "e", "s", "u", "l", "t", "s", " ", "A">>
Title2 == <<"E", "l", "e", "c", "t", "i", "o", "n", " ", "r", "e", "s", "u", "l", "t", "s", " ", "B">>
Title3 == <<"U", "S", ":", " ", "v", "o", "t", "e", "s">>
Titles == {Title1, Title2, Title3}
Desc1 == <<"e", "l", "e", "c", "t", "i", "o", "n", " ", "d", "a", "y">>
Descriptions == {Desc1}
CatNone == <<>>
CatThe360 == <<"T", "h", "e", " ", "3", "6", "0">>
Categories == {CatNone, CatThe360}
Pages == {{}, {CatThe360}}
PhraseElection == <<"e", "l", "e", "c", "t", "i", "o", "n">>
Stamp == <<"2", "0", "2", "4", "0", "8", "2", "0", "1", "0", "1", "5", "0", "0">>
Today == "2024-08-20"
ExTitle == <<"B", "r", "e", "a", "k", "i", "n", "g", " ", "E", "l", "e", "c", "t", "i", "o", "n", " ", "N", "e", "w", "s">>
ExDesc == <<"e", "l", "e", "c", "t", "i", "o", "n", " ", "r", "e", "s", "u", "l", "t", "s">>
ImageSources == {"absent", "", "http://img"}
FetchOutcomes == {"ok", "fail", "fail_partial"}
Stages == <<"open_site", "filter_news_by_category", "extract_news_data", "save_to_excel", "close">>
Alphabet == {"a", "A", "b"}

\* all strings over Alphabet of length at most n
StringsUpTo(n) == UNION {[1..k -> Alphabet] : k \in 0..n}

\* ------------------------------------------------------------------- state
VARIABLES
    pc,             \* position of the run
    category,       \* self.category
    search_phrase,  \* self.search_phrase
    timestamp,      \* self.timestamp
    dirs,           \* directories that exist
    files,          \* files that exist, as [dir, name]
    browser,        \* "none", "open", "closed"
    pageCategories, \* texts of the visible category controls of the page
    trace,          \* the scraper methods main has called, in order
    fatal,          \* the exception that left main, "none" if none
    articles,       \* scroll_and_load: articles
    previous_count, \* scroll_and_load: previous_count
    ret,            \* scroll_and_load: the returned list
    npolls,         \* history: polls performed (saturating)
    prevPoll,       \* history: count of the poll before the last one, -1 if none
    mono,           \* history: no poll reported fewer elements than the poll before it
    strict,         \* history: every poll reported more elements than the poll before it
    loaded,         \* extract_news_data: articles
    idx,            \* extract_news_data: position of the for loop
    news_data,      \* extract_news_data: news_data
    news_src,       \* history: the article each record of news_data came from
    raisedSet,      \* history: the articles whose processing raised
    errlog,         \* logging.error lines of extract_news_data
    dl,             \* history: the last download_image call
    title,          \* search_phrase_count: title
    description,    \* search_phrase_count: description
    count           \* search_phrase_count: the returned count, -1 before the call

vars == <<pc, category, search_phrase, timestamp, dirs, files, browser, pageCategories,
          trace, fatal, articles, previous_count, ret, npolls, prevPoll, mono, strict,
          loaded, idx, news_data, news_src, raisedSet, errlog, dl, title, description, count>>

scrollVars == <<articles, previous_count, ret, npolls, prevPoll, mono, strict>>

extractVars == <<loaded, idx, news_data, news_src, raisedSet, errlog, dl>>

countVars == <<title, description, count>>

runVars == <<category, search_phrase, timestamp, dirs, pageCategories>>

NoCall == [image_url |-> "None", title |-> <<>>, outcome |-> "none", attempts |-> 0,
           raised |-> FALSE, ret |-> Placeholder]

\* ------------------------------------------------------- session initialiser
\* category.upper().replace(" ", "_")
StrReplace(s, from, to) == [i \in DOMAIN s |-> IF s[i] = from THEN to ELSE s[i]]

CategoryPrefix(c) == StrReplace(StrUpper(c), " ", "_")

OutputDir == <<"output", "/">> \o CategoryPrefix(category) \o <<"_">> \o timestamp

ImagesDir == OutputDir \o <<"/", "images">>

\* the state NewsScraper.__init__ leaves behind
InitContext(cats, pages) ==
    /\ category \in cats
    /\ search_phrase = PhraseElection
    /\ timestamp = Stamp
    /\ pageCategories \in pages
    /\ dirs = {OutputDir, ImagesDir}
    /\ files = {}
    /\ browser = "none"
    /\ trace = <<>>
    /\ fatal = "none"

InitScrollFrame ==
    /\ articles = <<>>
    /\ previous_count = 0
    /\ ret = <<>>
    /\ npolls = 0
    /\ prevPoll = -1
    /\ mono = TRUE
    /\ strict = TRUE

InitExtractFrame ==
    /\ loaded = <<>>
    /\ idx = 1
    /\ news_data = <<>>
    /\ news_src = <<>>
    /\ raisedSet = {}
    /\ errlog = <<>>
    /\ dl = NoCall

InitCountFrame ==
    /\ title = <<>>
    /\ description = <<>>
    /\ count = -1

\* --------------------------------------------------------- scroll_and_load
\* get_webelements: n cards in DOM order, off cards having left the top
Poll(off, n) == [i \in 1..n |-> off + i]

\* the loop without its no-growth exit
LoopContinues_NoStallExit(n, prev) == n < ArticleTarget

\* does the loop go round again after a poll of n elements
LoopContinues(n, prev) == n # prev /\ n < ArticleTarget

\* one round of the while loop: scroll, sleep, poll, compare, re-test
ScrollPoll(limit) ==
    /\ pc = "scroll"
    /\ \E n \in 0..limit, off \in 0..MaxOffset :
        /\ articles' = Poll(off, n)
        /\ previous_count' = IF n = previous_count THEN previous_count ELSE n
        /\ pc' = IF LoopContinues(n, previous_count) THEN "scroll" ELSE "scroll_return"
        /\ npolls' = Min(npolls + 1, MaxPolls)
        /\ prevPoll' = IF npolls = 0 THEN -1 ELSE Len(articles)
        /\ mono' = (mono /\ (npolls = 0 \/ n >= Len(articles)))
        /\ strict' = (strict /\ (npolls = 0 \/ n > Len(articles)))
    /\ UNCHANGED <<ret, runVars, files, browser, trace, fatal, extractVars, countVars>>

\* articles[-20:]
FirstItems_FromTheEnd(s) == SubSeq(s, Len(s) - Min(ReturnLimit, Len(s)) + 1, Len(s))

\* articles[:20]
FirstItems(s) == Prefix(s, ReturnLimit)

ScrollReturn ==
    /\ pc = "scroll_return"
    /\ ret' = FirstItems(articles)
    /\ pc' = "returned"
    /\ UNCHANGED <<articles, previous_count, npolls, prevPoll, mono, strict,
                   runVars, files, browser, trace, fatal, extractVars, countVars>>

\* a browser call of the loop raises; nothing in extract_news_data or main catches it
ScrollRaise ==
    /\ pc = "scroll"
    /\ pc' = "aborted"
    /\ fatal' = "browser_error"
    /\ UNCHANGED <<scrollVars, runVars, files, browser, trace, extractVars, countVars>>

ScrollPollAny == ScrollPoll(MaxCount)

\* scroll_and_load entered on a page already filtered by its one category
InitScroll ==
    /\ InitContext({CatThe360}, {{CatThe360}})
    /\ InitScrollFrame
    /\ InitExtractFrame
    /\ InitCountFrame
    /\ pc = "scroll"

NextScroll == ScrollPollAny \/ ScrollReturn \/ ScrollRaise

SpecScroll == InitScroll /\ [][NextScroll]_vars

\* ---------------------------------------------------------- download_image
\* re.sub(r'\W+', '', s)
Sanitize(s) == SelectSeq(s, IsWordChar)

\* f"{category_prefix}_{title_sanitized}_{self.timestamp}.jpg"
ImageFilename(t) ==
    CategoryPrefix(category) \o <<"_">> \o Sanitize(Prefix(t, TitlePrefixLen)) \o <<"_">>
        \o timestamp \o JpgExt

ImagePath(name) == [dir |-> ImagesDir, name |-> name]

\* not image_url
Falsy(image_url) == image_url \in {"None", ""}

\* urllib.request.urlretrieve(image_url, image_path): the file is written, or
\* the call raises before the file is opened, or it raises with the file begun
Urlretrieve(name, outcome, fs) ==
    [exc |-> outcome # "ok",
     files |-> IF outcome = "fail" THEN fs ELSE fs \cup {ImagePath(name)}]

\* download_image without its except clause
DownloadHandler_NoCatch(name, body) == [ret |-> name, raised |-> body.exc]

\* what the except clause of download_image makes of the try body
DownloadHandler(name, body) ==
    [ret |-> IF body.exc THEN Placeholder ELSE name, raised |-> FALSE]

DownloadImage(image_url, t, outcome, fs) ==
    IF Falsy(image_url)
      THEN [ret |-> Placeholder, raised |-> FALSE, attempts |-> 0, files |-> fs]
      ELSE LET name == ImageFilename(t)
               body == Urlretrieve(name, outcome, fs)
               h == DownloadHandler(name, body)
           IN  [ret |-> h.ret, raised |-> h.raised, attempts |-> 1, files |-> body.files]

\* ------------------------------------------------------ search_phrase_count
\* the phrase counted in title and description joined
SearchPhraseCountOf_Joined(t, d) == StrCount(StrLower(t \o d), StrLower(search_phrase))

SearchPhraseCountOf(t, d) ==
    StrCount(StrLower(t), StrLower(search_phrase)) + StrCount(StrLower(d), StrLower(search_phrase))

\* -------------------------------------------------------- extract_news_data
\* extract_image_url: the src attribute, None when the img lookup raises
ExtractImageUrl(src) == IF src = "absent" THEN "None" ELSE src

\* the try body of the for loop for one article.  kind says where it raises:
\* "no_title" at find_element, "desc_timeout" at the wait, "late" when the
\* element is read again after download_image, "ok" nowhere.
ProcessArticle(kind, t, d, src, outcome, fs) ==
    IF kind \in {"no_title", "desc_timeout"}
      THEN [exc |-> TRUE, files |-> fs, called |-> FALSE, call |-> NoCall, item |-> <<>>]
      ELSE LET image_url == ExtractImageUrl(src)
               r == DownloadImage(image_url, t, outcome, fs)
               call == [image_url |-> image_url, title |-> t, outcome |-> outcome,
                        attempts |-> r.attempts, raised |-> r.raised, ret |-> r.ret]
           IN  [exc |-> (kind = "late" \/ r.raised), files |-> r.files, called |-> TRUE,
                call |-> call,
                item |-> [title |-> t, description |-> d, date |-> Today,
                          picture_filename |-> r.ret,
                          search_phrase_count |-> SearchPhraseCountOf(t, d)]]

\* an except clause that leaves the for loop
ContinuesAfterError_Break == FALSE

\* does the for loop go on to the next article after this one raised
ContinuesAfterError == TRUE

\* logging.info("Extracting news data...") and the call of scroll_and_load
ExtractBegin ==
    /\ pc = "extract"
    /\ trace' = Append(trace, "extract_news_data")
    /\ pc' = "scroll"
    /\ UNCHANGED <<scrollVars, runVars, files, browser, fatal, extractVars, countVars>>

\* articles = self.scroll_and_load(); news_data = []
ExtractInit ==
    /\ pc = "returned"
    /\ loaded' = ret
    /\ idx' = 1
    /\ news_data' = <<>>
    /\ articles' = <<>>
    /\ previous_count' = 0
    /\ ret' = <<>>
    /\ npolls' = 0
    /\ prevPoll' = -1
    /\ mono' = TRUE
    /\ strict' = TRUE
    /\ pc' = "articles"
    /\ UNCHANGED <<runVars, files, browser, trace, fatal, news_src, raisedSet, errlog, dl, countVars>>

\* one round of the for loop, with its try and except
ExtractArticle ==
    /\ pc = "articles"
    /\ idx <= Len(loaded)
    /\ \E kind \in {"ok", "no_title", "desc_timeout", "late"}, t \in Titles, d \in Descriptions,
          src \in ImageSources, outcome \in FetchOutcomes :
        LET a == loaded[idx]
            r == ProcessArticle(kind, t, d, src, outcome, files)
        IN  /\ files' = r.files
            /\ dl' = IF r.called THEN r.call ELSE dl
            /\ raisedSet' = IF r.exc THEN raisedSet \cup {a} ELSE raisedSet
            /\ errlog' = IF r.exc THEN Append(errlog, a) ELSE errlog
            /\ news_data' = IF r.exc THEN news_data ELSE Append(news_data, r.item)
            /\ news_src' = IF r.exc THEN news_src ELSE Append(news_src, a)
            /\ idx' = IF r.exc /\ ~ContinuesAfterError THEN Len(loaded) + 1 ELSE idx + 1
    /\ UNCHANGED <<pc, loaded, scrollVars, runVars, browser, trace, fatal, countVars>>

\* return news_data
ExtractReturn ==
    /\ pc = "articles"
    /\ idx > Len(loaded)
    /\ pc' = "save"
    /\ UNCHANGED <<scrollVars, runVars, files, browser, trace, fatal, extractVars, countVars>>

\* --------------------------------------------------------- the other stages
OpenSite ==
    /\ pc = "open_site"
    /\ trace' = Append(trace, "open_site")
    /\ \E ok \in BOOLEAN :
        IF ok THEN /\ browser' = "open"
                   /\ pc' = "filter"
                   /\ fatal' = fatal
              ELSE /\ browser' = browser
                   /\ pc' = "aborted"
                   /\ fatal' = "browser_error"
    /\ UNCHANGED <<scrollVars, runVars, files, extractVars, countVars>>

\* a filter that logs the missing category and returns
CategoryMissing_LogOnly == [pc |-> "extract", fatal |-> "none"]

\* what filter_news_by_category does when the control is not visible
CategoryMissing == [pc |-> "aborted", fatal |-> "category_not_found"]

FilterNewsByCategory ==
    /\ pc = "filter"
    /\ trace' = Append(trace, "filter_news_by_category")
    /\ \E waitOk \in BOOLEAN :
        IF category # <<>>
          THEN IF category \in pageCategories
                 THEN IF waitOk THEN pc' = "extract" /\ fatal' = fatal
                                ELSE pc' = "aborted" /\ fatal' = "wait_timeout"
                 ELSE pc' = CategoryMissing.pc /\ fatal' = CategoryMissing.fatal
          ELSE pc' = "extract" /\ fatal' = fatal
    /\ UNCHANGED <<scrollVars, runVars, files, browser, extractVars, countVars>>

XlsxPath == [dir |-> OutputDir, name |-> CategoryPrefix(category) \o XlsxInfix \o timestamp \o XlsxExt]

LogPath == [dir |-> OutputDir, name |-> CategoryPrefix(category) \o LogInfix \o timestamp \o TxtExt]

\* save_scrape_log without its except clause
SaveScrapeLog_Unguarded(outcome, fs) ==
    [raised |-> outcome # "ok", files |-> IF outcome = "fail" THEN fs ELSE fs \cup {LogPath}]

\* save_scrape_log: its try and except; a failed write may leave the file begun
SaveScrapeLog(outcome, fs) ==
    [raised |-> FALSE, files |-> IF outcome = "fail" THEN fs ELSE fs \cup {LogPath}]

\* save_to_excel, save_scrape_log included
SaveToExcel ==
    /\ pc = "save"
    /\ trace' = Append(trace, "save_to_excel")
    /\ \E xl \in {"ok", "fail"}, lg \in FetchOutcomes :
        IF xl = "fail"
          THEN /\ pc' = "aborted"
               /\ fatal' = "excel_write"
               /\ files' = files
          ELSE LET r == SaveScrapeLog(lg, files \cup {XlsxPath})
               IN  /\ files' = r.files
                   /\ pc' = IF r.raised THEN "aborted" ELSE "close"
                   /\ fatal' = IF r.raised THEN "log_write" ELSE fatal
    /\ UNCHANGED <<scrollVars, runVars, browser, extractVars, countVars>>

Close ==
    /\ pc = "close"
    /\ trace' = Append(trace, "close")
    /\ browser' = "closed"
    /\ pc' = "done"
    /\ UNCHANGED <<scrollVars, runVars, files, fatal, extractVars, countVars>>

ScrollPollPage == ScrollPoll(MaxArticles)

Init ==
    /\ InitContext(Categories, Pages)
    /\ InitScrollFrame
    /\ InitExtractFrame
    /\ InitCountFrame
    /\ pc = "open_site"

Next ==
    \/ OpenSite
    \/ FilterNewsByCategory
    \/ ExtractBegin
    \/ ScrollPollPage
    \/ ScrollReturn
    \/ ScrollRaise
    \/ ExtractInit
    \/ ExtractArticle
    \/ ExtractReturn
    \/ SaveToExcel
    \/ Close

Spec == Init /\ [][Next]_vars

\* ------------------------------------------------------ properties of the run
ImageFiles == {f \in files : f.dir = ImagesDir}

Processed == SubSeq(loaded, 1, idx - 1)

ExtractionOver == pc \in {"save", "close", "done"} \/ (pc = "aborted" /\ fatal = "excel_write")

\* C4: extract_news_data yields exactly one record per article whose
\* processing did not raise and none for an article whose processing raised,
\* in the order of the articles, and goes on to the articles after a failure.
C4_PartialFailureTolerant ==
    /\ idx <= Len(loaded) + 1
    /\ news_src = SelectSeq(Processed, LAMBDA a : a \notin raisedSet)
    /\ errlog = SelectSeq(Processed, LAMBDA a : a \in raisedSet)
    /\ Len(news_data) = Len(news_src)
    /\ ExtractionOver => Processed = loaded

C4_Witness ==
    /\ pc = "save"
    /\ Len(loaded) = 2
    /\ loaded[1] \in raisedSet
    /\ news_src = <<loaded[2]>>

FilterCalled == Len(trace) >= 2

\* C5 as stated: a configured category with no visible control makes
\* filter_news_by_category raise category-not-found before extraction, and
\* the output directory holds nothing but the empty images folder.
C5_AbsentCategoryAlwaysFatal ==
    (category \notin pageCategories /\ FilterCalled) =>
        /\ pc = "aborted"
        /\ fatal = "category_not_found"
        /\ \A i \in DOMAIN trace : trace[i] # "extract_news_data"
        /\ files = {}
        /\ dirs = {OutputDir, ImagesDir}

\* C5 amended: the same for every non-empty configured category; an empty
\* category skips the filter and the run goes on.
C5_AbsentNonEmptyCategoryFatal ==
    (category # <<>> /\ category \notin pageCategories /\ FilterCalled) =>
        /\ pc = "aborted"
        /\ fatal = "category_not_found"
        /\ \A i \in DOMAIN trace : trace[i] # "extract_news_data"
        /\ files = {}
        /\ dirs = {OutputDir, ImagesDir}

C5_Witness ==
    /\ category = CatThe360
    /\ pageCategories = {}
    /\ pc = "aborted"
    /\ fatal = "category_not_found"
    /\ trace = <<"open_site", "filter_news_by_category">>

NameThe360Title3 == <<"T", "H", "E", "_", "3", "6", "0", "_", "U", "S", "v", "o", "t", "e", "s", "_", "2", "0", "2", "4", "0", "8", "2", "0", "1", "0", "1", "5", "0", "0", ".", "j", "p", "g">>

NameThe360Title1 == <<"T", "H", "E", "_", "3", "6", "0", "_", "E", "l", "e", "c", "t", "i", "o", "n", "r", "e", "s", "u", "l", "t", "_", "2", "0", "2", "4", "0", "8", "2", "0", "1", "0", "1", "5", "0", "0", ".", "j", "p", "g">>

\* C6: download_image returns the placeholder without a fetch for an absent
\* or empty URL; otherwise it fetches once and returns the generated name
\* exactly when the fetch succeeded, else the placeholder; nothing is
\* raised, and a returned generated name is a file of the images directory.
C6_DownloadImageContract ==
    dl.outcome # "none" =>
        /\ ~dl.raised
        /\ Falsy(dl.image_url) => (dl.ret = Placeholder /\ dl.attempts = 0)
        /\ ~Falsy(dl.image_url) =>
              /\ dl.attempts = 1
              /\ dl.outcome = "ok" => dl.ret # Placeholder
              /\ dl.outcome # "ok" => dl.ret = Placeholder
        /\ dl.ret # Placeholder =>
              /\ [dir |-> ImagesDir, name |-> dl.ret] \in files
              /\ SubSeq(dl.ret, Len(dl.ret) - 3, Len(dl.ret)) = JpgExt
              /\ dl.ret = ImageFilename(dl.title)
              /\ (category = CatThe360 /\ dl.title = Title3) => dl.ret = NameThe360Title3
              /\ (category = CatThe360 /\ dl.title = Title1) => dl.ret = NameThe360Title1
              /\ (category = CatThe360 /\ dl.title = Title2) => dl.ret = NameThe360Title1

C6_Witness ==
    /\ dl.outcome = "ok"
    /\ dl.image_url = "http://img"
    /\ dl.ret = NameThe360Title3
    /\ Len(errlog) = 1

PictureRecords == {i \in DOMAIN news_data : news_data[i].picture_filename # Placeholder}

\* C7: after a full run the images directory holds as many files as there
\* are records whose picture_filename is not the placeholder.
C7_OneImagePerRecord ==
    pc = "done" => Cardinality(ImageFiles) = Cardinality(PictureRecords)

IsPrefixOf(s, t) == Len(s) <= Len(t) /\ \A i \in DOMAIN s : s[i] = t[i]

FatalErrors == {"browser_error", "category_not_found", "wait_timeout", "excel_write"}

\* C8: the stages run at most once each, in the order open_site,
\* filter_news_by_category, extract_news_data, save_to_excel, close; the
\* browser is closed exactly when the run reaches the end of the success
\* path, never after a fatal error; failures of an article, an image
\* download or the log write are not fatal.
C8_StageOrderAndClose ==
    /\ IsPrefixOf(trace, Stages)
    /\ browser = "closed" <=> pc = "done"
    /\ pc = "done" <=> trace = Stages
    /\ fatal # "none" <=> pc = "aborted"
    /\ pc = "aborted" => (fatal \in FatalErrors /\ browser # "closed")

C8_Witness ==
    /\ pc = "done"
    /\ browser = "closed"
    /\ errlog # <<>>
    /\ dl.outcome = "fail"
    /\ LogPath \notin files
    /\ XlsxPath \in files

\* the names of the non-placeholder records are pairwise different
PictureNamesDistinct ==
    pc = "done" =>
        \A i, j \in PictureRecords :
            i # j => news_data[i].picture_filename # news_data[j].picture_filename

\* ------------------------------------------- search_phrase_count on its own
CountInputs ==
    (StringsUpTo(MaxTitleLen) \X StringsUpTo(MaxDescLen) \X StringsUpTo(MaxPhraseLen))
        \cup {<<ExTitle, ExDesc, PhraseElection>>}

InitCount ==
    /\ category = CatThe360
    /\ timestamp = Stamp
    /\ pageCategories = {CatThe360}
    /\ dirs = {OutputDir, ImagesDir}
    /\ files = {}
    /\ browser = "none"
    /\ trace = <<>>
    /\ fatal = "none"
    /\ InitScrollFrame
    /\ InitExtractFrame
    /\ \E in \in CountInputs :
        /\ title = in[1]
        /\ description = in[2]
        /\ search_phrase = in[3]
    /\ count = -1
    /\ pc = "count_call"

SearchPhraseCount ==
    /\ pc = "count_call"
    /\ count' = SearchPhraseCountOf(title, description)
    /\ pc' = "count_done"
    /\ UNCHANGED <<scrollVars, runVars, files, browser, trace, fatal, extractVars, title, description>>

NextCount == SearchPhraseCount

SpecCount == InitCount /\ [][NextCount]_vars

\* ------------------------------------------------- properties of scroll_and_load
Exited == pc \in {"scroll_return", "returned"}

\* C1: when scroll_and_load returns, the returned list has at most 20
\* elements and is the first min(20, n) elements, in DOM order, of the n
\* elements the last poll observed.
C1_ReturnsFirstTwenty ==
    pc = "returned" =>
        /\ npolls >= 1
        /\ Len(ret) <= 20
        /\ Len(ret) = Min(20, Len(articles))
        /\ \A i \in 1..Len(ret) : ret[i] = articles[i]

C1_Witness ==
    /\ pc = "returned"
    /\ Len(articles) > 20
    /\ Len(ret) = 20
    /\ ret[1] = 2
    /\ npolls > 2

\* C2: against a strictly growing source the loop stops at the first poll
\* of at least 20 elements and not before; when the count stalls at k < 20
\* for two consecutive polls the loop stops at the second of them and
\* returns k elements.
C2_StoppingRule ==
    /\ (strict /\ pc = "scroll" /\ npolls >= 1) => Len(articles) < 20
    /\ (strict /\ Exited) => Len(articles) >= 20
    /\ (npolls >= 2 /\ prevPoll = Len(articles) /\ Len(articles) < 20)
          => (pc # "scroll" /\ (pc = "returned" => Len(ret) = Len(articles)))
    /\ (Exited /\ Len(articles) < 20) => (npolls >= 2 /\ prevPoll = Len(articles))

\* C3: when the loop exits, the last poll returned at least 20 elements or
\* the last two polls performed returned the same number of elements.
C3_ExitRule ==
    Exited => \/ Len(articles) >= 20
              \/ npolls >= 2 /\ prevPoll = Len(articles)

\* C10: a source whose count never decreases is polled at most 20 times;
\* a poll that differs from the poll before it and stays below 20 keeps
\* the loop running, so a source that always does so is polled forever.
C10_Termination ==
    /\ [](mono => (npolls <= 20 /\ (npolls = 20 => pc # "scroll")))
    /\ [][(pc = "scroll" /\ npolls >= 1 /\ Len(articles') # Len(articles)
             /\ Len(articles') < 20) => pc' = "scroll"]_vars

C10_Witness ==
    /\ mono
    /\ npolls = 20
    /\ pc = "returned"
    /\ Len(ret) = 20

\* the loop still running after more polls than any non-decreasing source allows
LoopOutlivesBound == pc = "scroll" /\ npolls = MaxPolls /\ ~mono /\ Len(articles) < 20

NoLoopOutlivesBound == ~LoopOutlivesBound

\* ---------------------------------------------- properties of search_phrase_count
\* the same letter, in either case
SameLetter(a, b) ==
    \/ a = b
    \/ \E i \in DOMAIN LowerSeq : {a, b} = {LowerSeq[i], UpperSeq[i]}

\* 0-based positions where sub occurs in s, case ignored
Occurrences(s, sub) ==
    {p \in 0..(Len(s) - Len(sub)) : \A j \in 1..Len(sub) : SameLetter(s[p + j], sub[j])}

NonOverlapping(P, m) == \A p, q \in P : p # q => (p + m <= q \/ q + m <= p)

\* the largest number of occurrences no two of which overlap
MaxNonOverlapping(s, sub) ==
    LET sets == {P \in SUBSET Occurrences(s, sub) : NonOverlapping(P, Len(sub))}
    IN  CHOOSE n \in 0..(Len(s) + 1) :
            /\ \E P \in sets : Cardinality(P) = n
            /\ \A P \in sets : Cardinality(P) <= n

\* C9: search_phrase_count is the number of non-overlapping, case-insensitive
\* occurrences of the phrase in the title plus that in the description, each
\* field on its own; it is a natural number; the example of the spec gives 2.
C9_CountsBothFields ==
    pc = "count_done" =>
        /\ count = MaxNonOverlapping(title, search_phrase)
                     + MaxNonOverlapping(description, search_phrase)
        /\ count \in Nat
        /\ (title = ExTitle /\ description = ExDesc /\ search_phrase = PhraseElection) => count = 2

C9_Witness ==
    /\ pc = "count_done"
    /\ title = ExTitle
    /\ description = ExDesc
    /\ search_phrase = PhraseElection
    /\ count = 2

\* an overlapping occurrence is counted once, a match across the fields not at all
C9_OverlapReached ==
    /\ pc = "count_done"
    /\ title = <<"a", "A", "a">>
    /\ description = <<"a">>
    /\ search_phrase = <<"A", "a">>
    /\ count = 1

====
